---- MODULE Spec2Model ----
(***************************************************************************)
(* Model of the gramgrid puzzle API (src/server.js, src/auth.js) and of    *)
(* the daily_puzzles table it runs on (src/gramgrid-db.js).                *)
(*                                                                         *)
(* JavaScript strings are sequences of characters, so that the date        *)
(* pattern, toUpperCase, startsWith, replace and SQLite's text comparison  *)
(* are computed and not assumed.  One action is one HTTP request taken     *)
(* through the whole Express pipeline in registration order.               *)
(***************************************************************************)
EXTENDS Integers, Sequences, FiniteSets, TLC

VARIABLES puzzles, analytics, clock, req, dbFail, res, steps, shadow, before

vars == <<puzzles, analytics, clock, req, dbFail, res, steps, shadow, before>>

(***************************************************************************)
(* Bounds of the model.                                                    *)
(***************************************************************************)
\* rows the analytics table may hold before requests that record stop
MaxEvents == 1
\* number of midnights (UTC) the server clock passes
MaxTicks == 1

(***************************************************************************)
(* JavaScript values: strings, undefined, and a non-string (a JSON number  *)
(* in a body, an array in a query string).                                 *)
(***************************************************************************)
Str(s) == [t |-> "string", s |-> s]
Undefined == [t |-> "undefined", s |-> <<>>]
NonString == [t |-> "number", s |-> <<"7">>]

\* JavaScript truthiness: undefined and "" are falsy
Truthy(v) == v.t # "undefined" /\ (v.t = "string" => v.s # <<>>)

\* a || b
OrElse(a, b) == IF Truthy(a) THEN a ELSE b

Digits == {"0", "1", "2", "3", "4", "5", "6", "7", "8", "9"}

\* String.prototype.toUpperCase on the characters the model uses
UpperChar(c) ==
  CASE c = "c" -> "C"
    [] c = "l" -> "L"
    [] c = "h" -> "H"
    [] c = "x" -> "X"
    [] OTHER -> c

ToUpperCase(s) == [i \in 1..Len(s) |-> UpperChar(s[i])]

\* s.startsWith(p)
StartsWith(s, p) == Len(s) >= Len(p) /\ SubSeq(s, 1, Len(p)) = p

\* index of the first occurrence of p in s, 0 when there is none
IndexOf(s, p) ==
  LET hits == {i \in 1..(Len(s) - Len(p) + 1) : SubSeq(s, i, i + Len(p) - 1) = p}
  IN IF hits = {} THEN 0 ELSE CHOOSE i \in hits : \A j \in hits : i <= j

\* s.replace(p, '') : removes the first occurrence of p
ReplaceFirst(s, p) ==
  LET i == IndexOf(s, p)
  IN IF i = 0 THEN s ELSE SubSeq(s, 1, i - 1) \o SubSeq(s, i + Len(p), Len(s))

\* /^\d{4}-\d{2}-\d{2}$/.test(s)
DatePattern(s) ==
  /\ Len(s) = 10
  /\ \A i \in {1, 2, 3, 4, 6, 7, 9, 10} : s[i] \in Digits
  /\ s[5] = "-"
  /\ s[8] = "-"

\* byte value of a character, for SQLite's BINARY collation
CharCode(c) ==
  CASE c = "-" -> 45
    [] c = "0" -> 48 [] c = "1" -> 49 [] c = "2" -> 50 [] c = "3" -> 51
    [] c = "4" -> 52 [] c = "5" -> 53 [] c = "6" -> 54 [] c = "7" -> 55
    [] c = "8" -> 56 [] c = "9" -> 57
    [] OTHER -> 100

RECURSIVE TextLE(_, _)
\* a <= b for two TEXT values (memcmp, the shorter string first on a tie)
TextLE(a, b) ==
  IF a = <<>> THEN TRUE
  ELSE IF b = <<>> THEN FALSE
  ELSE IF CharCode(a[1]) < CharCode(b[1]) THEN TRUE
  ELSE IF CharCode(a[1]) > CharCode(b[1]) THEN FALSE
  ELSE TextLE(Tail(a), Tail(b))

(***************************************************************************)
(* Calendar dates.                                                         *)
(***************************************************************************)
DigitChar(n) ==
  CASE n = 0 -> "0" [] n = 1 -> "1" [] n = 2 -> "2" [] n = 3 -> "3"
    [] n = 4 -> "4" [] n = 5 -> "5" [] n = 6 -> "6" [] n = 7 -> "7"
    [] n = 8 -> "8" [] n = 9 -> "9"

DigitVal(c) == CHOOSE n \in 0..9 : DigitChar(n) = c

Pad2(n) == <<DigitChar(n \div 10), DigitChar(n % 10)>>

Pad4(n) == <<DigitChar(n \div 1000), DigitChar((n \div 100) % 10),
             DigitChar((n \div 10) % 10), DigitChar(n % 10)>>

\* the YYYY-MM-DD text of a day: toISOString().split('T')[0], SQLite date()
IsoDate(d) == Pad4(d.y) \o <<"-">> \o Pad2(d.m) \o <<"-">> \o Pad2(d.d)

\* the day a YYYY-MM-DD text denotes
ParseDate(s) ==
  [y |-> 1000 * DigitVal(s[1]) + 100 * DigitVal(s[2]) + 10 * DigitVal(s[3]) + DigitVal(s[4]),
   m |-> 10 * DigitVal(s[6]) + DigitVal(s[7]),
   d |-> 10 * DigitVal(s[9]) + DigitVal(s[10])]

IsLeap(y) == (y % 4 = 0 /\ y % 100 # 0) \/ y % 400 = 0

DaysInMonth(y, m) ==
  IF m = 2 THEN (IF IsLeap(y) THEN 29 ELSE 28)
  ELSE IF m \in {4, 6, 9, 11} THEN 30 ELSE 31

PrevDay(d) ==
  IF d.d > 1 THEN [d EXCEPT !.d = d.d - 1]
  ELSE IF d.m > 1 THEN [y |-> d.y, m |-> d.m - 1, d |-> DaysInMonth(d.y, d.m - 1)]
  ELSE [y |-> d.y - 1, m |-> 12, d |-> 31]

NextDay(d) ==
  IF d.d < DaysInMonth(d.y, d.m) THEN [d EXCEPT !.d = d.d + 1]
  ELSE IF d.m < 12 THEN [y |-> d.y, m |-> d.m + 1, d |-> 1]
  ELSE [y |-> d.y + 1, m |-> 1, d |-> 1]

RECURSIVE MinusDays(_, _)
MinusDays(d, n) == IF n = 0 THEN d ELSE MinusDays(PrevDay(d), n - 1)

\* SQLite date(text, '-6 days')
SqlDateMinus6(s) == IsoDate(MinusDays(ParseDate(s), 6))

(***************************************************************************)
(* Strings of the program.                                                 *)
(***************************************************************************)
CL == <<"C", "L">>
CH == <<"C", "H">>
Levels == {CL, CH}

SegApi == <<"a", "p", "i">>
SegPuzzle == <<"p", "u", "z", "z", "l", "e">>
SegPuzzles == <<"p", "u", "z", "z", "l", "e", "s">>
SegToday == <<"t", "o", "d", "a", "y">>
SegWeek == <<"w", "e", "e", "k">>
SegAnalytics == <<"a", "n", "a", "l", "y", "t", "i", "c", "s">>
SegEvent == <<"e", "v", "e", "n", "t">>
SegStats == <<"s", "t", "a", "t", "s">>
SegHealth == <<"h", "e", "a", "l", "t", "h">>
Bearer == <<"B", "e", "a", "r", "e", "r", " ">>

\* req.path as text: "/" before every segment
RECURSIVE PathText(_)
PathText(path) ==
  IF path = <<>> THEN <<>> ELSE <<"/">> \o Head(path) \o PathText(Tail(path))

(***************************************************************************)
(* Puzzle content (a JSON value) and its serialisation.                    *)
(***************************************************************************)
\* an object with its properties in insertion order, each <<key, value>>
Obj(props) == [t |-> "object", props |-> props]
NoPuzzle == [t |-> "undefined", props |-> <<>>]

\* !!puzzle
PuzzleTruthy(p) == p.t # "undefined"

\* !!puzzle[k] : a property that is absent or "" is falsy
PropTruthy(p, k) == \E i \in 1..Len(p.props) : p.props[i][1] = k /\ p.props[i][2] # ""

RECURSIVE JsonStringify(_)
\* JSON.stringify of an object: its keys and values, flattened in order
JsonStringify(p) ==
  IF p.props = <<>> THEN <<>>
  ELSE <<p.props[1][1], p.props[1][2]>> \o JsonStringify(Obj(Tail(p.props)))

\* JSON.parse of a stored text
JsonParse(text) ==
  Obj([i \in 1..(Len(text) \div 2) |-> <<text[2 * i - 1], text[2 * i]>>])

(***************************************************************************)
(* The daily_puzzles table and the prepared statements on it.              *)
(***************************************************************************)
Row(date, level, data) == [puzzle_date |-> date, puzzle_level |-> level, puzzle_data |-> data]

\* rows a new row with this date conflicts with: puzzle_date is UNIQUE
Conflicts(tbl, date, level) == {r \in tbl : r.puzzle_date = date}

\* INSERT OR IGNORE: a stored row wins over the new one
insertPuzzleIgnore(tbl, date, level, data) ==
  IF Conflicts(tbl, date, level) = {} THEN tbl \cup {Row(date, level, data)} ELSE tbl

\* a REPLACE that deletes the conflicting rows and inserts only when there were none
insertPuzzleOrDelete(tbl, date, level, data) ==
  IF Conflicts(tbl, date, level) = {} THEN tbl \cup {Row(date, level, data)}
  ELSE tbl \ Conflicts(tbl, date, level)

\* INSERT OR REPLACE INTO daily_puzzles (puzzle_date, puzzle_level, puzzle_data)
insertPuzzle(tbl, date, level, data) ==
  (tbl \ Conflicts(tbl, date, level)) \cup {Row(date, level, data)}

\* SELECT puzzle_data ... WHERE puzzle_date = ? AND puzzle_level = ?
getPuzzleByDate(tbl, date, level) ==
  {r \in tbl : r.puzzle_date = date /\ r.puzzle_level = level}

\* DELETE ... WHERE puzzle_date = ? AND puzzle_level = 'CL'
deletePuzzleClassic(tbl, date) ==
  [changes |-> Cardinality({r \in tbl : r.puzzle_date = date /\ r.puzzle_level = CL}),
   rows |-> {r \in tbl : ~(r.puzzle_date = date /\ r.puzzle_level = CL)}]

\* DELETE FROM daily_puzzles WHERE puzzle_date = ?
deletePuzzle(tbl, date) ==
  [changes |-> Cardinality({r \in tbl : r.puzzle_date = date}),
   rows |-> {r \in tbl : r.puzzle_date # date}]

RECURSIVE OrderByDateDesc(_)
\* ORDER BY puzzle_date DESC
OrderByDateDesc(rows) ==
  IF rows = {} THEN <<>>
  ELSE LET top == CHOOSE r \in rows : \A q \in rows : TextLE(q.puzzle_date, r.puzzle_date)
       IN <<top>> \o OrderByDateDesc(rows \ {top})

\* the same WHERE with puzzle_date < ? as its upper end
WeekWhereStrict(r, from, to, level) ==
  /\ TextLE(SqlDateMinus6(from), r.puzzle_date)
  /\ TextLE(r.puzzle_date, to) /\ r.puzzle_date # to
  /\ r.puzzle_level = level

\* WHERE puzzle_date >= date(?, '-6 days') AND puzzle_date <= ? AND puzzle_level = ?
WeekWhere(r, from, to, level) ==
  /\ TextLE(SqlDateMinus6(from), r.puzzle_date)
  /\ TextLE(r.puzzle_date, to)
  /\ r.puzzle_level = level

getWeekPuzzles(tbl, from, to, level) ==
  OrderByDateDesc({r \in tbl : WeekWhere(r, from, to, level)})

\* SELECT puzzle_date, puzzle_data FROM daily_puzzles ORDER BY puzzle_date DESC
getAllPuzzles(tbl) ==
  LET rows == OrderByDateDesc(tbl)
  IN [i \in 1..Len(rows) |->
        [puzzle_date |-> rows[i].puzzle_date, puzzle_data |-> rows[i].puzzle_data]]

(***************************************************************************)
(* Analytics.                                                              *)
(***************************************************************************)
\* insertAnalytics.run: appends one row unless the statement fails
insertAnalytics(tbl, eventType, fail) ==
  [ok |-> ~fail,
   rows |-> IF fail THEN tbl ELSE Append(tbl, [event_type |-> eventType])]

\* trackEvent without its try/catch
trackEventNoCatch(tbl, eventType, fail) ==
  [rows |-> insertAnalytics(tbl, eventType, fail).rows,
   threw |-> ~insertAnalytics(tbl, eventType, fail).ok]

\* trackEvent: the try/catch swallows a failed insert
trackEvent(tbl, eventType, fail) ==
  [rows |-> insertAnalytics(tbl, eventType, fail).rows, threw |-> FALSE]

\* the middleware condition without the method test
IsTrackedAnyMethod(r) ==
  StartsWith(PathText(r.path), PathText(<<SegApi, SegPuzzle>>))

\* req.path.startsWith('/api/puzzle') && req.method === 'GET'
IsTracked(r) ==
  /\ StartsWith(PathText(r.path), PathText(<<SegApi, SegPuzzle>>))
  /\ r.method = "GET"

(***************************************************************************)
(* Authentication.                                                         *)
(***************************************************************************)
\* req.headers['x-api-key'] || req.headers['authorization']?.replace('Bearer ', '')
PresentedKey(r) ==
  OrElse(r.xApiKey,
         IF r.authorization.t = "undefined" THEN Undefined
         ELSE Str(ReplaceFirst(r.authorization.s, Bearer)))

\* a check that takes any key that is present
authenticateAnyKey(r, envKey) == Truthy(PresentedKey(r))

\* authenticateApiKey: TRUE when next() is called
authenticateApiKey(r, envKey) ==
  /\ Truthy(PresentedKey(r))
  /\ PresentedKey(r) = envKey

(***************************************************************************)
(* Responses and route handlers.  A handler yields the response, the two   *)
(* tables after it, and the statements it ran on daily_puzzles.            *)
(***************************************************************************)
EmptyRes ==
  [status |-> 0, msg |-> "", date |-> <<>>, level |-> <<>>, puzzle |-> NoPuzzle,
   puzzles |-> <<>>, count |-> -1, from |-> <<>>, to |-> <<>>, totalEvents |-> -1]

\* res.status(code).json({ error: msg })
Fail(code, msg) == [EmptyRes EXCEPT !.status = code, !.msg = msg]

Out(r, tbl, ev, access) == [res |-> r, puzzles |-> tbl, analytics |-> ev, access |-> access]

\* ['CL', 'CH'].includes(level.toUpperCase())
LevelOk(level) == ToUpperCase(level.s) \in Levels

\* the reply to a lookup whose SELECT gave the rows result
LookupReply(date, level, result, tbl, ev, notFound) ==
  IF result = {}
  THEN Out(Fail(404, notFound), tbl, ev, <<"select">>)
  ELSE Out([EmptyRes EXCEPT !.status = 200, !.date = date, !.level = level,
                            !.puzzle = JsonParse((CHOOSE r \in result : TRUE).puzzle_data)],
           tbl, ev, <<"select">>)

\* the lookup both GET handlers share: getPuzzleByDate.get(date, level) and the reply
Lookup(date, level, tbl, ev, notFound) ==
  LookupReply(date, ToUpperCase(level.s),
              getPuzzleByDate(tbl, date, ToUpperCase(level.s)), tbl, ev, notFound)

\* the handlers' checks of the level, then the statement and reply in found
WithLevel(level, tbl, ev, found) ==
  IF level.t # "string" THEN Out(Fail(500, "Internal server error"), tbl, ev, <<>>)
  ELSE IF ~LevelOk(level) THEN Out(Fail(400, "Invalid level"), tbl, ev, <<>>)
  ELSE found

\* app.get('/api/puzzle/:date')
GetPuzzleHandler(r, tbl, ev) ==
  IF ~DatePattern(r.path[3]) THEN Out(Fail(400, "Invalid date format"), tbl, ev, <<>>)
  ELSE WithLevel(OrElse(r.qlevel, Str(CL)), tbl, ev,
                 Lookup(r.path[3], OrElse(r.qlevel, Str(CL)), tbl, ev, "Puzzle not found"))

\* app.get('/api/puzzle/today')
GetTodayHandler(r, tbl, ev, clk) ==
  WithLevel(OrElse(r.qlevel, Str(CL)), tbl, ev,
            Lookup(IsoDate(clk), OrElse(r.qlevel, Str(CL)), tbl, ev,
                   "No puzzle available for today"))

\* results.map(row => ({ date, level, puzzle: JSON.parse(row.puzzle_data) }))
WeekEntries(results) ==
  [i \in 1..Len(results) |->
     [date |-> results[i].puzzle_date,
      level |-> results[i].puzzle_level,
      puzzle |-> JsonParse(results[i].puzzle_data)]]

\* the reply of the week handler for the mapped rows
WeekReply(level, list, tbl, ev) ==
  IF Len(list) = 0
  THEN Out(Fail(404, "No puzzles found for this week"), tbl, ev, <<"select">>)
  ELSE Out([EmptyRes EXCEPT !.status = 200, !.level = level,
                            !.puzzles = list, !.count = Len(list),
                            !.from = list[Len(list)].date, !.to = list[1].date],
           tbl, ev, <<"select">>)

\* getWeekPuzzles.all(today, today, level) and the reply
WeekLookup(today, level, tbl, ev) ==
  WeekReply(level, WeekEntries(getWeekPuzzles(tbl, today, today, level)), tbl, ev)

\* app.get('/api/puzzles/week')
GetWeekHandler(r, tbl, ev, clk) ==
  WithLevel(OrElse(r.qlevel, Str(CL)), tbl, ev,
            WeekLookup(IsoDate(clk), ToUpperCase(OrElse(r.qlevel, Str(CL)).s), tbl, ev))

\* results.map(row => ({ date: row.puzzle_date, puzzle: JSON.parse(row.puzzle_data) }))
AllEntries(results) ==
  [i \in 1..Len(results) |->
     [date |-> results[i].puzzle_date, puzzle |-> JsonParse(results[i].puzzle_data)]]

\* app.get('/api/puzzles')
GetAllHandler(r, tbl, ev) ==
  Out([EmptyRes EXCEPT !.status = 200, !.puzzles = AllEntries(getAllPuzzles(tbl))],
      tbl, ev, <<"select">>)

\* app.post('/api/puzzle')
PostPuzzleHandler(r, tbl, ev) ==
  IF ~Truthy(r.date) \/ ~Truthy(r.level) \/ ~PuzzleTruthy(r.puzzle)
  THEN Out(Fail(400, "Date, level, and puzzle data are required"), tbl, ev, <<>>)
  ELSE IF ~DatePattern(r.date.s) THEN Out(Fail(400, "Invalid date format"), tbl, ev, <<>>)
  ELSE IF r.level.t # "string" THEN Out(Fail(500, "Internal server error"), tbl, ev, <<>>)
  ELSE IF ~LevelOk(r.level) THEN Out(Fail(400, "Invalid level"), tbl, ev, <<>>)
  ELSE IF ~PropTruthy(r.puzzle, "words") \/ ~PropTruthy(r.puzzle, "targets")
             \/ ~PropTruthy(r.puzzle, "solution")
  THEN Out(Fail(400, "Puzzle must have words, targets, and solution"), tbl, ev, <<>>)
  ELSE Out([EmptyRes EXCEPT !.status = 201, !.msg = "Puzzle created successfully",
                            !.date = r.date.s, !.level = ToUpperCase(r.level.s),
                            !.puzzle = r.puzzle],
           insertPuzzle(tbl, r.date.s, ToUpperCase(r.level.s), JsonStringify(r.puzzle)),
           ev, <<"insert">>)

\* the reply of the delete handler for the statement's result
DeleteReply(result, ev) ==
  IF result.changes = 0
  THEN Out(Fail(404, "Puzzle not found"), result.rows, ev, <<"delete">>)
  ELSE Out([EmptyRes EXCEPT !.status = 200, !.msg = "Puzzle deleted successfully"],
           result.rows, ev, <<"delete">>)

\* app.delete('/api/puzzle/:date')
DeletePuzzleHandler(r, tbl, ev) == DeleteReply(deletePuzzle(tbl, r.path[3]), ev)

\* the reply of the event handler after trackEvent gave t
EventReply(t, tbl) ==
  IF t.threw THEN Out(Fail(500, "Failed to track event"), tbl, t.rows, <<>>)
  ELSE Out([EmptyRes EXCEPT !.status = 200, !.msg = "success"], tbl, t.rows, <<>>)

\* app.post('/api/analytics/event')
PostEventHandler(r, tbl, ev, fail) ==
  IF ~Truthy(r.eventType)
  THEN Out(Fail(400, "eventType is required"), tbl, ev, <<>>)
  ELSE EventReply(trackEvent(ev, r.eventType.s[1], fail), tbl)

\* the same handler with COUNT(*) ... WHERE event_type = 'api_request'
GetStatsHandlerApiOnly(r, tbl, ev) ==
  Out([EmptyRes EXCEPT !.status = 200,
                       !.totalEvents = Cardinality({i \in 1..Len(ev) :
                                                      ev[i].event_type = "api_request"})],
      tbl, ev, <<>>)

\* app.get('/api/analytics/stats'): totals.totalEvents is COUNT(*) FROM analytics
GetStatsHandler(r, tbl, ev) ==
  Out([EmptyRes EXCEPT !.status = 200, !.totalEvents = Len(ev)], tbl, ev, <<>>)

(***************************************************************************)
(* The Express stack, in registration order.                               *)
(***************************************************************************)
\* process.env.API_KEY
API_KEY == Str(<<"k", "1">>)

\* a route parameter such as :date
Param == <<":">>

Layers ==
  << [name |-> "root", method |-> "GET", pattern |-> <<>>],
     [name |-> "health", method |-> "GET", pattern |-> <<SegHealth>>],
     [name |-> "auth", method |-> "ALL", pattern |-> <<SegApi>>],
     [name |-> "getPuzzle", method |-> "GET", pattern |-> <<SegApi, SegPuzzle, Param>>],
     [name |-> "getToday", method |-> "GET", pattern |-> <<SegApi, SegPuzzle, SegToday>>],
     [name |-> "getWeek", method |-> "GET", pattern |-> <<SegApi, SegPuzzles, SegWeek>>],
     [name |-> "getAll", method |-> "GET", pattern |-> <<SegApi, SegPuzzles>>],
     [name |-> "postPuzzle", method |-> "POST", pattern |-> <<SegApi, SegPuzzle>>],
     [name |-> "deletePuzzle", method |-> "DELETE", pattern |-> <<SegApi, SegPuzzle, Param>>],
     [name |-> "postEvent", method |-> "POST", pattern |-> <<SegApi, SegAnalytics, SegEvent>>],
     [name |-> "getStats", method |-> "GET", pattern |-> <<SegApi, SegAnalytics, SegStats>>] >>

\* app.use(prefix, fn) matches every method and every path under the prefix;
\* app.get/post/delete(path, fn) match the method and the whole path
Matches(layer, r) ==
  IF layer.method = "ALL"
  THEN Len(r.path) >= Len(layer.pattern)
       /\ SubSeq(r.path, 1, Len(layer.pattern)) = layer.pattern
  ELSE /\ layer.method = r.method
       /\ Len(r.path) = Len(layer.pattern)
       /\ \A i \in 1..Len(layer.pattern) :
            layer.pattern[i] = Param \/ layer.pattern[i] = r.path[i]

RECURSIVE Dispatch(_, _)
\* the layer that answers the request: the first one that matches, unless the
\* credential check refuses it first; "notFound" is the final 404 handler
Dispatch(i, r) ==
  IF i > Len(Layers) THEN "notFound"
  ELSE IF ~Matches(Layers[i], r) THEN Dispatch(i + 1, r)
  ELSE IF Layers[i].name # "auth" THEN Layers[i].name
  ELSE IF authenticateApiKey(r, API_KEY) THEN Dispatch(i + 1, r)
  ELSE "unauthorized"

Handle(name, r, tbl, ev, clk, fail) ==
  CASE name = "root" -> Out([EmptyRes EXCEPT !.status = 200, !.msg = "API is running"], tbl, ev, <<>>)
    [] name = "health" -> Out([EmptyRes EXCEPT !.status = 200, !.msg = "healthy"], tbl, ev, <<>>)
    [] name = "unauthorized" -> Out(Fail(401, "API key"), tbl, ev, <<>>)
    [] name = "getPuzzle" -> GetPuzzleHandler(r, tbl, ev)
    [] name = "getToday" -> GetTodayHandler(r, tbl, ev, clk)
    [] name = "getWeek" -> GetWeekHandler(r, tbl, ev, clk)
    [] name = "getAll" -> GetAllHandler(r, tbl, ev)
    [] name = "postPuzzle" -> PostPuzzleHandler(r, tbl, ev)
    [] name = "deletePuzzle" -> DeletePuzzleHandler(r, tbl, ev)
    [] name = "postEvent" -> PostEventHandler(r, tbl, ev, fail)
    [] name = "getStats" -> GetStatsHandler(r, tbl, ev)
    [] OTHER -> Out(Fail(404, "Endpoint not found"), tbl, ev, <<>>)

\* the layers after the analytics middleware
Routed(pre, name, out) ==
  [res |-> out.res, puzzles |-> out.puzzles, analytics |-> out.analytics,
   steps |-> pre \o <<name>> \o out.access]

\* the request after the analytics middleware left the events t.rows
AfterTracking(r, tbl, t, pre, clk, fail) ==
  IF t.threw
  THEN [res |-> Fail(500, "Something went wrong!"), puzzles |-> tbl,
        analytics |-> t.rows, steps |-> pre]
  ELSE Routed(pre, Dispatch(1, r), Handle(Dispatch(1, r), r, tbl, t.rows, clk, fail))

\* the stack with the credential check registered before the analytics middleware
PipelineAuthFirst(r, tbl, ev, clk, fail) ==
  IF IsTracked(r) /\ Dispatch(1, r) # "unauthorized"
  THEN AfterTracking(r, tbl, trackEvent(ev, "api_request", fail), <<"track">>, clk, fail)
  ELSE AfterTracking(r, tbl, [rows |-> ev, threw |-> FALSE], <<>>, clk, fail)

\* one request through the stack: the analytics middleware, then the layers
Pipeline(r, tbl, ev, clk, fail) ==
  IF IsTracked(r)
  THEN AfterTracking(r, tbl, trackEvent(ev, "api_request", fail), <<"track">>, clk, fail)
  ELSE AfterTracking(r, tbl, [rows |-> ev, threw |-> FALSE], <<>>, clk, fail)

(***************************************************************************)
(* Requests the clients send.                                              *)
(***************************************************************************)
Key1 == <<"k", "1">>
KeyBad == <<"k", "2">>

\* no credential, a wrong x-api-key, the right key as a Bearer token
NoCred == [xApiKey |-> Undefined, authorization |-> Undefined]
WrongCred == [xApiKey |-> Str(KeyBad), authorization |-> Undefined]
GoodCred == [xApiKey |-> Undefined, authorization |-> Str(Bearer \o Key1)]
Credentials == {NoCred, WrongCred, GoodCred}

\* 2025-02-24, 2025-03-02, 2025-03-03
DateA == IsoDate([y |-> 2025, m |-> 2, d |-> 24])
DateB == IsoDate([y |-> 2025, m |-> 3, d |-> 2])
DateC == IsoDate([y |-> 2025, m |-> 3, d |-> 3])
GoodDates == {DateA, DateB, DateC}

\* "2025-1-1" and "20250101"
ShortDate == <<"2", "0", "2", "5", "-", "1", "-", "1">>
PlainDate == <<"2", "0", "2", "5", "0", "1", "0", "1">>
BadDates == {ShortDate, PlainDate}

\* the server's clock at start: 2025-03-02 UTC
StartDay == [y |-> 2025, m |-> 3, d |-> 2]

LevelInputs ==
  { Undefined, Str(CL), Str(<<"c", "h">>), Str(<<"X", "X">>), NonString }

Puzzle1 == Obj(<< <<"words", "w1">>, <<"targets", "t1">>, <<"solution", "s1">> >>)
Puzzle2 == Obj(<< <<"words", "w2">>, <<"targets", "t2">>, <<"solution", "s2">>, <<"hint", "h2">> >>)
NoTargets == Obj(<< <<"words", "w1">>, <<"solution", "s1">> >>)
EmptyWords == Obj(<< <<"words", "">>, <<"targets", "t1">>, <<"solution", "s1">> >>)
GoodPuzzles == {Puzzle1, Puzzle2}
PuzzleInputs == {Puzzle1, Puzzle2, NoTargets, EmptyWords, NoPuzzle}

EventTypeInputs == {Undefined, Str(<<"puzzle_accessed">>)}

NoReq ==
  [method |-> "", path |-> <<>>, xApiKey |-> Undefined, authorization |-> Undefined,
   qlevel |-> Undefined, date |-> Undefined, level |-> Undefined, puzzle |-> NoPuzzle,
   eventType |-> Undefined]

Req(method, path, cred) ==
  [NoReq EXCEPT !.method = method, !.path = path,
                !.xApiKey = cred.xApiKey, !.authorization = cred.authorization]

(***************************************************************************)
(* State machine.  req, dbFail, res and steps describe the request being   *)
(* answered; shadow is the response the same request gets when its         *)
(* analytics INSERT succeeds, before holds the two tables as the request   *)
(* found them.                                                             *)
(***************************************************************************)
NoBefore == [puzzles |-> {}, analytics |-> <<>>]

Init ==
  /\ puzzles = {}
  /\ analytics = <<>>
  /\ clock = [day |-> StartDay, ticks |-> 0]
  /\ req = NoReq
  /\ dbFail = FALSE
  /\ res = EmptyRes
  /\ steps = <<>>
  /\ shadow = EmptyRes
  /\ before = NoBefore

Idle == req = NoReq

\* the request r, answered with out, leaves the state; ok is the answer of the
\* same request when its analytics INSERT succeeds
Commit(r, fail, out, ok) ==
  /\ Len(ok.analytics) <= MaxEvents
  /\ fail => Len(ok.analytics) > Len(analytics)
  /\ req' = r
  /\ dbFail' = fail
  /\ res' = out.res
  /\ steps' = out.steps
  /\ puzzles' = out.puzzles
  /\ analytics' = out.analytics
  /\ shadow' = ok.res
  /\ before' = [puzzles |-> puzzles, analytics |-> analytics]
  /\ UNCHANGED clock

\* the server takes request r from start to response; fail says whether the
\* analytics INSERT of this request fails
Serve(r, fail) ==
  /\ Idle
  /\ Commit(r, fail, Pipeline(r, puzzles, analytics, clock.day, fail),
            Pipeline(r, puzzles, analytics, clock.day, FALSE))

\* Requests with the right credential take every combination of inputs;
\* requests that will be refused take the few listed in Probe*.
ProbeDates == {DateB, ShortDate}
ProbeLevels == {Str(CL), Str(<<"X", "X">>)}

GetByDateAndLevel ==
  \E cred \in Credentials, date \in GoodDates \cup BadDates, level \in LevelInputs,
     fail \in BOOLEAN :
    /\ cred = GoodCred \/ (date \in ProbeDates /\ level \in ProbeLevels)
    /\ Serve([Req("GET", <<SegApi, SegPuzzle, date>>, cred) EXCEPT !.qlevel = level], fail)

GetToday ==
  \E cred \in Credentials, level \in LevelInputs, fail \in BOOLEAN :
    /\ cred = GoodCred \/ level \in ProbeLevels
    /\ Serve([Req("GET", <<SegApi, SegPuzzle, SegToday>>, cred) EXCEPT !.qlevel = level], fail)

GetWeek ==
  \E cred \in Credentials, level \in LevelInputs, fail \in BOOLEAN :
    /\ cred = GoodCred \/ level \in ProbeLevels
    /\ Serve([Req("GET", <<SegApi, SegPuzzles, SegWeek>>, cred) EXCEPT !.qlevel = level], fail)

ListAll ==
  \E cred \in Credentials, fail \in BOOLEAN :
    Serve(Req("GET", <<SegApi, SegPuzzles>>, cred), fail)

\* bodies of POST /api/puzzle: every level and content with three of the
\* dates, and the valid bodies for the other dates
UpsertBodies ==
  { [date |-> d, level |-> l, puzzle |-> p] :
      d \in {Undefined, Str(DateA), Str(ShortDate)}, l \in LevelInputs, p \in PuzzleInputs }
  \cup
  { [date |-> Str(d), level |-> l, puzzle |-> p] :
      d \in {DateB, DateC, PlainDate}, l \in {Str(CL), Str(<<"c", "h">>)}, p \in GoodPuzzles }

ProbeBodies ==
  { [date |-> Str(d), level |-> Str(CL), puzzle |-> p] :
      d \in ProbeDates, p \in {Puzzle1, NoTargets} }

Upsert ==
  \E cred \in Credentials, body \in UpsertBodies :
    /\ cred = GoodCred \/ body \in ProbeBodies
    /\ Serve([Req("POST", <<SegApi, SegPuzzle>>, cred)
                EXCEPT !.date = body.date, !.level = body.level, !.puzzle = body.puzzle],
             FALSE)

Delete ==
  \E cred \in Credentials, date \in GoodDates \cup BadDates :
    /\ cred = GoodCred \/ date \in ProbeDates
    /\ Serve(Req("DELETE", <<SegApi, SegPuzzle, date>>, cred), FALSE)

RecordEvent ==
  \E cred \in Credentials, eventType \in EventTypeInputs, fail \in BOOLEAN :
    Serve([Req("POST", <<SegApi, SegAnalytics, SegEvent>>, cred)
             EXCEPT !.eventType = eventType], fail)

AggregateStats ==
  \E cred \in Credentials : Serve(Req("GET", <<SegApi, SegAnalytics, SegStats>>, cred), FALSE)

Health ==
  \E cred \in {NoCred, GoodCred} : Serve(Req("GET", <<SegHealth>>, cred), FALSE)

\* requests no route is registered for
OtherRequest ==
  \E cred \in {NoCred, GoodCred}, fail \in BOOLEAN,
     r \in { [method |-> "POST", path |-> <<SegApi, SegPuzzles>>],
             [method |-> "PUT", path |-> <<SegApi, SegPuzzle, DateA>>],
             [method |-> "GET", path |-> <<SegPuzzle, DateA>>],
             [method |-> "GET", path |-> <<SegApi, SegPuzzles, DateA>>] } :
    Serve(Req(r.method, r.path, cred), fail)

\* the response has been sent; the server waits for the next request
Respond ==
  /\ ~Idle
  /\ req' = NoReq
  /\ dbFail' = FALSE
  /\ res' = EmptyRes
  /\ steps' = <<>>
  /\ shadow' = EmptyRes
  /\ before' = NoBefore
  /\ UNCHANGED <<puzzles, analytics, clock>>

\* midnight UTC passes
Tick ==
  /\ Idle
  /\ clock.ticks < MaxTicks
  /\ clock' = [day |-> NextDay(clock.day), ticks |-> clock.ticks + 1]
  /\ UNCHANGED <<puzzles, analytics, req, dbFail, res, steps, shadow, before>>

Next ==
  \/ GetByDateAndLevel
  \/ GetToday
  \/ GetWeek
  \/ ListAll
  \/ Upsert
  \/ Delete
  \/ RecordEvent
  \/ AggregateStats
  \/ Health
  \/ OtherRequest
  \/ Respond
  \/ Tick

Spec == Init /\ [][Next]_vars

(***************************************************************************)
(* Vocabulary of the properties.                                           *)
(***************************************************************************)
HasGoodCred == req.xApiKey = Str(Key1) \/ req.authorization = Str(Bearer \o Key1)

UnderApi == Len(req.path) >= 1 /\ req.path[1] = SegApi

IsGetByDate ==
  /\ req.method = "GET" /\ Len(req.path) = 3
  /\ req.path[1] = SegApi /\ req.path[2] = SegPuzzle /\ req.path[3] # SegToday

IsGetToday == req.method = "GET" /\ req.path = <<SegApi, SegPuzzle, SegToday>>

IsGetWeek == req.method = "GET" /\ req.path = <<SegApi, SegPuzzles, SegWeek>>

IsListAll == req.method = "GET" /\ req.path = <<SegApi, SegPuzzles>>

IsUpsert == req.method = "POST" /\ req.path = <<SegApi, SegPuzzle>>

IsDelete ==
  /\ req.method = "DELETE" /\ Len(req.path) = 3
  /\ req.path[1] = SegApi /\ req.path[2] = SegPuzzle

IsRecordEvent == req.method = "POST" /\ req.path = <<SegApi, SegAnalytics, SegEvent>>

\* the level code a caller's level value stands for, <<>> when it stands for none
LevelCode(v) ==
  IF v = Str(CL) \/ v = Str(<<"c", "l">>) \/ v = Str(<<"C", "l">>) \/ v = Str(<<"c", "L">>) THEN CL
  ELSE IF v = Str(CH) \/ v = Str(<<"c", "h">>) \/ v = Str(<<"C", "h">>) \/ v = Str(<<"c", "H">>) THEN CH
  ELSE <<>>

\* the level a GET asks for: an omitted level stands for CL
QueryLevelCode == IF req.qlevel = Undefined THEN CL ELSE LevelCode(req.qlevel)

HasAllFields(p) ==
  /\ p.t = "object"
  /\ \A k \in {"words", "targets", "solution"} :
       \E i \in 1..Len(p.props) : p.props[i][1] = k /\ p.props[i][2] # ""

\* statements the request ran on daily_puzzles
TouchedStore == \E i \in 1..Len(steps) : steps[i] \in {"select", "insert", "delete"}

\* the rows stored for a date and a level
StoredAt(tbl, date, level) == {r \in tbl : r.puzzle_date = date /\ r.puzzle_level = level}

\* what GET /api/puzzle/<date>?level=<level> answers now, with the right credential
LookupNow(date, level) ==
  Pipeline([Req("GET", <<SegApi, SegPuzzle, date>>, GoodCred) EXCEPT !.qlevel = level],
           puzzles, analytics, clock.day, FALSE).res

\* days from 0000-03-01 to the day a YYYY-MM-DD text denotes
DayNumber(s) ==
  LET y == 1000 * DigitVal(s[1]) + 100 * DigitVal(s[2]) + 10 * DigitVal(s[3]) + DigitVal(s[4])
      m == 10 * DigitVal(s[6]) + DigitVal(s[7])
      d == 10 * DigitVal(s[9]) + DigitVal(s[10])
      yy == IF m <= 2 THEN y - 1 ELSE y
      mm == IF m <= 2 THEN m + 9 ELSE m - 3
  IN 365 * yy + (yy \div 4) - (yy \div 100) + (yy \div 400) + ((153 * mm + 2) \div 5) + d - 1

(***************************************************************************)
(* Properties.                                                             *)
(***************************************************************************)
ValidUpsert ==
  /\ IsUpsert /\ HasGoodCred
  /\ req.date.t = "string" /\ req.date.s \in GoodDates
  /\ LevelCode(req.level) # <<>>
  /\ HasAllFields(req.puzzle)

\* C1: a valid upsert(date, level, content) succeeds, and the lookup of
\* (date, level) that follows it answers 200 with exactly that content, date
\* and level code, whatever was stored at the key before.
C1_UpsertRoundTrip ==
  ValidUpsert =>
    /\ res.status = 201
    /\ LET got == LookupNow(req.date.s, req.level)
       IN /\ got.status = 200
          /\ got.puzzle = req.puzzle
          /\ got.date = req.date.s
          /\ got.level = LevelCode(req.level)

\* C1 witness: Puzzle1 was written with level "ch" over a stored Puzzle2
C1_Witness ==
  /\ ValidUpsert /\ res.status = 201
  /\ req.puzzle = Puzzle1 /\ req.level = Str(<<"c", "h">>)
  /\ Row(req.date.s, CH, JsonStringify(Puzzle2)) \in before.puzzles

\* C2: an authorized GET /api/puzzle/today with a recognized or omitted level
\* answers 200 with the puzzle stored at (today, level) when there is one and
\* 404 when there is none.
C2_TodayDelegates ==
  (IsGetToday /\ HasGoodCred /\ QueryLevelCode # <<>>) =>
    LET rows == StoredAt(before.puzzles, IsoDate(clock.day), QueryLevelCode)
    IN IF rows = {} THEN res.status = 404
       ELSE /\ res.status = 200
            /\ \E r \in rows : res.puzzle = JsonParse(r.puzzle_data)

\* C3: delete(date) answers 404 and changes nothing when no puzzle is stored
\* for the date; otherwise it answers 200, removes exactly the rows of that
\* date, and a lookup of the date then answers 404 for each level.
C3_Delete ==
  (IsDelete /\ HasGoodCred) =>
    LET date == req.path[3]
        hit == {r \in before.puzzles : r.puzzle_date = date}
    IN IF hit = {}
       THEN res.status = 404 /\ puzzles = before.puzzles
       ELSE /\ res.status = 200
            /\ puzzles = before.puzzles \ hit
            /\ \A l \in Levels : LookupNow(date, Str(l)).status = 404

\* C3 witness: a delete removed a stored date and left another date stored
C3_Witness ==
  /\ IsDelete /\ HasGoodCred /\ res.status = 200
  /\ puzzles # {}
  /\ puzzles # before.puzzles

\* C4: getByDateAndLevel, upsert and delete answer 400 to a date that does
\* not match the pattern, without a statement on daily_puzzles.
C4_BadDateRejected ==
  (/\ HasGoodCred
   /\ \/ (IsGetByDate \/ IsDelete) /\ req.path[3] \in BadDates
      \/ IsUpsert /\ req.date.s \in BadDates) =>
    /\ res.status = 400
    /\ ~TouchedStore
    /\ puzzles = before.puzzles

\* the rows of a level whose date is one of the seven days ending today
InWeek(tbl, level, today) ==
  {r \in tbl : r.puzzle_level = level
               /\ DayNumber(today) - DayNumber(r.puzzle_date) \in 0..6}

C6_Auth ==
  /\ (UnderApi /\ ~HasGoodCred) =>
       /\ res.status = 401
       /\ puzzles = before.puzzles
       /\ steps \in {<<"unauthorized">>, <<"track", "unauthorized">>}
  /\ (UnderApi /\ HasGoodCred) => res.status # 401
  /\ (req.method = "GET" /\ req.path = <<SegHealth>>) => res.status = 200

\* C6 witness: a valid upsert body sent with a wrong key was refused
C6_Witness ==
  /\ IsUpsert /\ req.xApiKey = Str(KeyBad)
  /\ req.date = Str(DateB) /\ req.level = Str(CL) /\ req.puzzle = Puzzle1
  /\ res.status = 401

\* C7: an upsert whose date, level or content is missing, or whose content
\* lacks one of words, targets and solution, answers 400 and leaves
\* daily_puzzles as it was.
C7_IncompleteUpsert ==
  (/\ IsUpsert /\ HasGoodCred
   /\ \/ req.date = Undefined
      \/ req.level = Undefined
      \/ ~HasAllFields(req.puzzle)) =>
    /\ res.status = 400
    /\ puzzles = before.puzzles

\* the four operations that take a level, and the level value they were given
TakesLevel == IsGetByDate \/ IsGetToday \/ IsGetWeek \/ IsUpsert

GivenLevel == IF IsUpsert THEN req.level ELSE req.qlevel

\* C8: for the four operations that take a level, a level that is neither
\* CL nor CH in any case answers 400 without a statement on daily_puzzles,
\* and a request that is otherwise valid with cl, ch, ... is accepted and
\* answered with the uppercase code.
C8_Levels ==
  (TakesLevel /\ HasGoodCred) =>
    /\ (GivenLevel # Undefined /\ LevelCode(GivenLevel) = <<>>) =>
         res.status = 400 /\ ~TouchedStore
    /\ (/\ LevelCode(GivenLevel) # <<>>
        /\ IsGetByDate => req.path[3] \in GoodDates
        /\ IsUpsert => (req.date.s \in GoodDates /\ HasAllFields(req.puzzle))) =>
         /\ res.status \in {200, 201, 404}
         /\ res.status \in {200, 201} => res.level = LevelCode(GivenLevel)

\* C9: when the analytics INSERT of a request fails, no event is appended,
\* the response is the one the same request gets when the INSERT succeeds,
\* and POST /api/analytics/event with an event type still answers 200.
C9_RecordNeverRaises ==
  dbFail =>
    /\ analytics = before.analytics
    /\ res = shadow
    /\ (IsRecordEvent /\ HasGoodCred /\ req.eventType # Undefined) => res.status = 200

\* C9 witness: a lookup answered 200 although its analytics INSERT failed
C9_Witness ==
  /\ dbFail /\ IsGetByDate /\ res.status = 200
  /\ res.puzzle = Puzzle2

ApiRequest == [event_type |-> "api_request"]

IsPuzzleRead == IsGetByDate \/ IsGetToday \/ IsGetWeek \/ IsListAll

\* the request did not add an api_request event
NoApiRequestAdded ==
  \/ analytics = before.analytics
  \/ /\ Len(analytics) = Len(before.analytics) + 1
     /\ SubSeq(analytics, 1, Len(before.analytics)) = before.analytics
     /\ analytics[Len(analytics)] # ApiRequest

IsPuzzlePathGet ==
  /\ req.method = "GET" /\ Len(req.path) >= 2 /\ req.path[1] = SegApi
  /\ Len(req.path[2]) >= 6 /\ SubSeq(req.path[2], 1, 6) = SegPuzzle

IsAggregateStats == req.method = "GET" /\ req.path = <<SegApi, SegAnalytics, SegStats>>

\* the step adds nothing to the analytics table or appends one row to it
AppendOnly ==
  \/ analytics' = analytics
  \/ /\ Len(analytics') = Len(analytics) + 1
     /\ SubSeq(analytics', 1, Len(analytics)) = analytics

EntriesHaveLevel == \A i \in 1..Len(res.puzzles) : "level" \in DOMAIN res.puzzles[i]

\* C12: listAll answers every stored puzzle, by date descending, each entry
\* with the date, the level and the content of its row.
C12_ListAll ==
  (IsListAll /\ HasGoodCred) =>
    /\ res.status = 200
    /\ Len(res.puzzles) = Cardinality(before.puzzles)
    /\ \A i \in 1..(Len(res.puzzles) - 1) :
         DayNumber(res.puzzles[i].date) >= DayNumber(res.puzzles[i + 1].date)
    /\ EntriesHaveLevel
    /\ {Row(res.puzzles[i].date, res.puzzles[i].level, JsonStringify(res.puzzles[i].puzzle)) :
          i \in 1..Len(res.puzzles)} = before.puzzles

\* what the same upsert answers and leaves when it is applied once more
UpsertAgain == Pipeline(req, puzzles, analytics, clock.day, FALSE)

\* C13: after a valid upsert, applying the same (date, level, content) again
\* succeeds and leaves daily_puzzles exactly as the first application left it.
C13_UpsertIdempotent ==
  ValidUpsert =>
    /\ UpsertAgain.res.status = 201
    /\ UpsertAgain.puzzles = puzzles

\* C13 witness: the first application replaced a stored puzzle by another
C13_Witness ==
  /\ ValidUpsert /\ res.status = 201
  /\ req.puzzle = Puzzle2
  /\ Row(req.date.s, LevelCode(req.level), JsonStringify(Puzzle1)) \in before.puzzles
  /\ Cardinality(puzzles) = 2

\* C14: a valid upsert(d, L, c) leaves every row stored at another key
\* (date, level) as it was, the row of the other level on date d included.
C14_UpsertFrame ==
  ValidUpsert =>
    \A r \in before.puzzles :
      (r.puzzle_date # req.date.s \/ r.puzzle_level # LevelCode(req.level)) => r \in puzzles

\* the GET of a path beginning with /api/puzzle came without the right credential
IsRefusedRead == IsPuzzlePathGet /\ ~HasGoodCred

\* C15 as stated: a GET of a puzzle endpoint with a missing or wrong
\* credential is answered 401 with daily_puzzles unchanged and appends
\* exactly one analytics event.
C15_RefusedReadRecorded ==
  IsRefusedRead =>
    /\ res.status = 401
    /\ puzzles = before.puzzles
    /\ analytics = Append(before.analytics, ApiRequest)

\* C15 amended: the recording runs before the credential check, so such a
\* GET is answered 401 with daily_puzzles unchanged and appends exactly one
\* api_request event when the analytics INSERT succeeds, none when it fails.
C15_TrackedBeforeAuth ==
  IsRefusedRead =>
    /\ res.status = 401
    /\ puzzles = before.puzzles
    /\ steps = <<"track", "unauthorized">>
    /\ ~dbFail => analytics = Append(before.analytics, ApiRequest)
    /\ dbFail => analytics = before.analytics

\* C15 witness: a week request with a wrong key was refused and recorded
C15_Witness ==
  /\ IsGetWeek /\ req.xApiKey = Str(KeyBad) /\ res.status = 401
  /\ analytics = <<ApiRequest>> /\ before.analytics = <<>>
  /\ steps = <<"track", "unauthorized">>

====
